---- MODULE Spec2Model ----
(***************************************************************************)
(* Bulk API v2 client of simple-salesforce: the CSV chunker (split_csv),   *)
(* the result merger (_get_job_results) and the job pool of                *)
(* _bulk_operation.                                                        *)
(*                                                                         *)
(* Text is a sequence of one-character strings.  A row is a sequence of    *)
(* fields, a field is text.                                                *)
(***************************************************************************)
EXTENDS Integers, Sequences, FiniteSets, TLC

\* ---------------------------------------------------------------- bounds
\* longest data-row sequence handed to split_csv on its own
MaxRows == 3
\* largest max_bytes handed to split_csv on its own
MaxBytesBound == 12
\* most data rows in one fetched result body
MaxResultRows == 2
\* most data rows handed to one bulk operation
MaxOpRows == 3
\* most status queries of one bulk operation answered with a state that is not terminal
MaxWaits == 2

\* ---------------------------------------------------------------- text
NL == "\n"
CR == "\r"
QUOTE == "\""
COMMA == ","

RECURSIVE JoinWith(_, _)
\* sep.join(parts)
JoinWith(sep, parts) ==
  IF parts = <<>> THEN <<>>
  ELSE IF Len(parts) = 1 THEN parts[1]
  ELSE parts[1] \o sep \o JoinWith(sep, Tail(parts))

Contains(t, c) == \E k \in 1..Len(t) : t[k] = c

\* ---------------------------------------------------------------- csv
RECURSIVE DoubleQuotes(_)
DoubleQuotes(f) ==
  IF f = <<>> THEN <<>>
  ELSE (IF Head(f) = QUOTE THEN <<QUOTE, QUOTE>> ELSE <<Head(f)>>)
       \o DoubleQuotes(Tail(f))

\* csv.writer field with quoting=QUOTE_MINIMAL, quotechar='"', delimiter=','
WriteField(f) ==
  IF Contains(f, COMMA) \/ Contains(f, QUOTE) \/ Contains(f, NL) \/ Contains(f, CR)
  THEN <<QUOTE>> \o DoubleQuotes(f) \o <<QUOTE>>
  ELSE f

\* writer.writerow(line) into io.StringIO(newline=None): one line, "\n" ended
WriteRow(line) ==
  JoinWith(<<COMMA>>, [k \in 1..Len(line) |-> WriteField(line[k])]) \o <<NL>>

RECURSIVE ParseFrom(_, _, _, _, _, _)
ParseFrom(t, k, rows, row, fld, q) ==
  IF k > Len(t) THEN
    IF row = <<>> /\ fld = <<>> THEN rows ELSE Append(rows, Append(row, fld))
  ELSE IF q THEN
    IF t[k] = QUOTE THEN
      IF k < Len(t) /\ t[k + 1] = QUOTE
      THEN ParseFrom(t, k + 2, rows, row, Append(fld, QUOTE), TRUE)
      ELSE ParseFrom(t, k + 1, rows, row, fld, FALSE)
    ELSE ParseFrom(t, k + 1, rows, row, Append(fld, t[k]), TRUE)
  ELSE IF t[k] = QUOTE THEN ParseFrom(t, k + 1, rows, row, fld, TRUE)
  ELSE IF t[k] = COMMA THEN ParseFrom(t, k + 1, rows, Append(row, fld), <<>>, FALSE)
  ELSE IF t[k] = NL THEN
    ParseFrom(t, k + 1, Append(rows, Append(row, fld)), <<>>, <<>>, FALSE)
  ELSE ParseFrom(t, k + 1, rows, row, Append(fld, t[k]), FALSE)

\* csv.reader(file, delimiter=',', quotechar='"'): the rows of a CSV text
ParseCSV(t) == ParseFrom(t, 1, <<>>, <<>>, <<>>, FALSE)

\* ---------------------------------------------------------------- split_csv
\* the header row next(data) returns
CsvHeader == << <<"h">> >>

\* the header rows split_csv is fed on its own
HeaderSet == { CsvHeader, << <<"i">>, <<",">> >> }

\* the data rows the chunker is fed
RowSet == { << <<"a">> >>, << <<"b", "b">> >>, << <<"c">>, <<",">> >> }

RECURSIVE SumItems(_)
\* sum([len(item)+3 for item in line])
SumItems(line) ==
  IF line = <<>> THEN 0 ELSE Len(Head(line)) + 3 + SumItems(Tail(line))

\* what one row adds to n
RowCost(line) == SumItems(line) + 1

\* n >= max_bytes
ChunkFull(cnt, maxb) == cnt >= maxb

RECURSIVE InnerLoop(_, _, _, _, _)
\* for line in chain([line], data): write, count, yield and break when full.
\* p is the index of the row the iterator hands out next.
InnerLoop(rows, p, out, cnt, maxb) ==
  IF p > Len(rows)
  THEN [pos |-> p, output |-> out, n |-> cnt, full |-> FALSE]
  ELSE LET out2 == out \o WriteRow(rows[p])
           n2   == cnt + RowCost(rows[p])
       IN IF ChunkFull(n2, maxb)
          THEN [pos |-> p + 1, output |-> out2, n |-> n2, full |-> TRUE]
          ELSE InnerLoop(rows, p + 1, out2, n2, maxb)

\* the generator object before its first next()
NewGen == [at |-> "created", pos |-> 1, output |-> <<>>, n |-> 0]

\* a chunk begun without the header unless it is the first
FreshOutputFirstOnly(g, hdr) == IF g.at = "created" THEN WriteRow(hdr) ELSE <<>>

\* output = io.StringIO(); writer.writerow(header)
FreshOutput(g, hdr) == WriteRow(hdr)

\* One next() on the generator: runs it from where it is suspended to its
\* next yield, its return, or the exception it raises.
GenNext(g, hdr, rows, maxb) ==
  IF g.at = "yield_last" THEN [g EXCEPT !.at = "returned"]
  ELSE IF g.pos <= Len(rows) THEN
    \* outer for takes a line: fresh output, header written, n = 0
    LET r == InnerLoop(rows, g.pos, FreshOutput(g, hdr), 0, maxb)
    IN [at |-> IF r.full THEN "yield_inner" ELSE "yield_last",
        pos |-> r.pos, output |-> r.output, n |-> r.n]
  ELSE IF g.at = "created"
    \* the outer loop body never ran: start, n, output are unbound at the
    \* statements after the loop
    THEN [g EXCEPT !.at = "UnboundLocalError"]
    \* resumed after the inner yield with the iterator exhausted: the outer
    \* loop ends and the statements after it yield output.getvalue() again
    ELSE [g EXCEPT !.at = "yield_last"]

Yields(g) == g.at \in {"yield_inner", "yield_last"}

RECURSIVE SeqsUpTo(_, _)
\* all sequences over S of length at most k
SeqsUpTo(S, k) ==
  IF k = 0 THEN {<<>>}
  ELSE LET shorter == SeqsUpTo(S, k - 1)
       IN shorter \cup { Append(s, x) : s \in { t \in shorter : Len(t) = k - 1 }, x \in S }

\* ---------------------------------------------------------------- _get_job_results
RECURSIVE SplitLinesFrom(_, _, _, _)
SplitLinesFrom(t, k, lines, cur) ==
  IF k > Len(t) THEN (IF cur = <<>> THEN lines ELSE Append(lines, cur))
  ELSE IF t[k] = NL THEN SplitLinesFrom(t, k + 1, Append(lines, cur), <<>>)
  ELSE IF t[k] = CR THEN
    SplitLinesFrom(t, IF k < Len(t) /\ t[k + 1] = NL THEN k + 2 ELSE k + 1,
                   Append(lines, cur), <<>>)
  ELSE SplitLinesFrom(t, k + 1, lines, Append(cur, t[k]))

\* str.splitlines(): breaks at \n, \r and \r\n, no empty last line
SplitLines(t) == SplitLinesFrom(t, 1, <<>>, <<>>)

\* a single placeholder column
one_empty_column == <<NL, QUOTE, QUOTE, COMMA>>

\* empty_columns = '\n"","",'
empty_columns == <<NL, QUOTE, QUOTE, COMMA, QUOTE, QUOTE, COMMA>>

\* len(result_x.splitlines()) > 1
HasRows(lines) == Len(lines) > 1

\* the rows joined on without the break in front of them
AppendRowsNoBreak(combined, lines) ==
  IF HasRows(lines) THEN combined \o JoinWith(<<NL>>, Tail(lines))
  ELSE combined

\* combined_result += '\n' + '\n'.join(lines[1:])
AppendRows(combined, lines) ==
  IF HasRows(lines) THEN combined \o <<NL>> \o JoinWith(<<NL>>, Tail(lines))
  ELSE combined

\* combined_result += empty_columns + empty_columns.join(lines[1:])
AppendUnprocessed(combined, lines) ==
  IF HasRows(lines)
  THEN combined \o empty_columns \o JoinWith(empty_columns, Tail(lines))
  ELSE combined

\* lines 164-176 of _get_job_results on the three decoded bodies
CombineResults(success, failed, unprocessed) ==
  IF SplitLines(success) = <<>>
  THEN [raised |-> "IndexError", value |-> <<>>]
  ELSE [raised |-> "none",
        value |-> AppendUnprocessed(
                    AppendRows(AppendRows(SplitLines(success)[1], SplitLines(success)),
                               SplitLines(failed)),
                    SplitLines(unprocessed))]

\* result bodies the remote service can send: nothing at all, or a header
\* line and data rows, "\n" or "\r\n" separated, with or without a last break
ResultRowSet == { <<"a">>, <<"a", COMMA, "b">> }
LineStyles == { [eol |-> <<NL>>, last |-> FALSE], [eol |-> <<NL>>, last |-> TRUE],
                [eol |-> <<CR, NL>>, last |-> TRUE] }

Render(lines, style) ==
  JoinWith(style.eol, lines) \o (IF style.last THEN style.eol ELSE <<>>)

Bodies(hdr) ==
  {<<>>} \cup { Render(<<hdr>> \o rows, st) :
                  rows \in SeqsUpTo(ResultRowSet, MaxResultRows), st \in LineStyles }

\* ---------------------------------------------------------------- call_salesforce
\* result.status_code values the session answers with
StatusSet == {200, 300, 400, 404, 500}

\* only client and server errors raise
RaisesFrom400(status) == status >= 400

\* if result.status_code >= 300: exception_handler(result)
Raises(status) == status >= 300

\* 403 given the class of 401
ExcClassRefusedAsExpired(status) ==
  CASE status = 300 -> "SalesforceMoreThanOneRecord"
    [] status = 400 -> "SalesforceMalformedRequest"
    [] status = 401 -> "SalesforceExpiredSession"
    [] status = 403 -> "SalesforceExpiredSession"
    [] status = 404 -> "SalesforceResourceNotFound"
    [] OTHER -> "SalesforceGeneralError"

\* exc_map.get(result.status_code, SalesforceGeneralError)
ExcClass(status) ==
  CASE status = 300 -> "SalesforceMoreThanOneRecord"
    [] status = 400 -> "SalesforceMalformedRequest"
    [] status = 401 -> "SalesforceExpiredSession"
    [] status = 403 -> "SalesforceRefusedRequest"
    [] status = 404 -> "SalesforceResourceNotFound"
    [] OTHER -> "SalesforceGeneralError"

\* what a response carries: result.json() when the body parses, result.text
OkReply(json) == [parses |-> TRUE, json |-> json, text |-> ""]
ErrorReplies == { [parses |-> TRUE, json |-> "errorCode", text |-> "[{errorCode}]"],
                  [parses |-> FALSE, json |-> "", text |-> "Bad Gateway"] }
ErrorReply == [parses |-> TRUE, json |-> "errorCode", text |-> "[{errorCode}]"]

\* try: response_content = result.json() except Exception: result.text
ResponseContent(reply) == IF reply.parses THEN reply.json ELSE reply.text

\* session.request(method, url, ...) answered with a status and a body
Answer(req, status, reply) == [req EXCEPT !.status = status, !.reply = reply]

\* exc_cls(result.url, result.status_code, name, response_content), name = ""
ExcArgs(call) ==
  [url |-> <<call.op, call.job>>, status |-> call.status, name |-> "",
   content |-> ResponseContent(call.reply)]
NoExc == [url |-> <<"", 0>>, status |-> 0, name |-> "", content |-> ""]

RECURSIVE Issue(_, _)
\* The requests of reqs sent one after the other through call_salesforce, the
\* k-th answered with status sts[k]: the log ends at the first answer that raises.
Issue(reqs, sts) ==
  IF reqs = <<>> THEN <<>>
  ELSE LET c == Answer(Head(reqs), Head(sts),
                       IF Head(sts) = 200 THEN Head(reqs).reply ELSE ErrorReply)
       IN IF Raises(Head(sts)) THEN <<c>> ELSE <<c>> \o Issue(Tail(reqs), Tail(sts))

Last(q) == q[Len(q)]

\* the answers n requests in a row can get: all 200, or one of them any status
AnswerPlans(n) ==
  { [k \in 1..n |-> IF k = f THEN st ELSE 200] : f \in 1..n, st \in StatusSet }

\* ---------------------------------------------------------------- _bulk_operation
\* payload of _create_job
CreatePayload(op, ext) ==
  IF op = "upsert"
  THEN [operation |-> op, contentType |-> "CSV", lineEnding |-> "LF", externalIdFieldName |-> ext]
  ELSE [operation |-> op, contentType |-> "CSV", lineEnding |-> "LF"]

Request(op, job, body) ==
  [op |-> op, job |-> job, status |-> 0, body |-> body, reply |-> OkReply("")]

\* the state values a status query can answer with
TerminalStates == {"JobComplete", "Failed", "Aborted"}
JobStates == {"InProgress"} \cup TerminalStates

\* anything but JobComplete taken as still running
StillRunningUnlessComplete(state) == state # "JobComplete"

\* job_state not in ['JobComplete', 'Failed', 'Aborted']
StillRunning(state) == state \notin TerminalStates

\* the batch sent after the job is closed
SubmitRequestsCloseFirst(id, payload, batch) ==
  << Request("create", id, payload), Request("close", id, "UploadComplete"),
     Request("upload", id, batch) >>

\* _create_job, _add_batch and _close_job of one batch, with the id the
\* create call answers
SubmitRequests(id, payload, batch) ==
  << Request("create", id, payload), Request("upload", id, batch),
     Request("close", id, "UploadComplete") >>

\* the head popped whatever i is
PopHead(list, i) == Tail(list)

\* list.pop(i), i counted from 0
Pop(list, i) == SubSeq(list, 1, i) \o SubSeq(list, i + 2, Len(list))

\* the failed records fetched ahead of the successful ones
PollRequestsFailedFirst(job, fetch) ==
  IF fetch
  THEN << Request("status", job, <<>>),
          Request("failedResults", job, <<>>),
          Request("successfulResults", job, <<>>),
          Request("unprocessedrecords", job, <<>>) >>
  ELSE << Request("status", job, <<>>) >>

\* _get_job, and for a terminal state the three fetches of _get_job_results;
\* the state the status query answers is kept in job_state, not in the log
PollRequests(job, fetch) ==
  IF fetch
  THEN << Request("status", job, <<>>),
          Request("successfulResults", job, <<>>),
          Request("failedResults", job, <<>>),
          Request("unprocessedrecords", job, <<>>) >>
  ELSE << Request("status", job, <<>>) >>

\* the loop left after any pass
LoopOverAfterPass(live) == TRUE

\* while job_ids: the loop is over when the live list is empty
LoopOver(live) == live = <<>>

\* the bodies joined with nothing between them
JoinResultsNoBreak(rs) == JoinWith(<<>>, rs)

\* "\n".join(results)
JoinResults(rs) == JoinWith(<<NL>>, rs)

\* the data rows one bulk operation is fed, and the limits it splits at:
\* split_csv(data, 100) is 100 MiB; the small ones let one or two of these
\* rows fill a chunk
OpRowSet == { << <<"a">> >> }
MiB100 == 104857600
OpMaxBytes == {5, 10, MiB100}

\* what the remote service holds as the three result bodies of job j
IdText(j) == << <<"1", "2", "3", "4", "5", "6", "7", "8", "9">>[j] >>
ServerSuccess(j) == IF j % 2 = 1 THEN <<"s", NL>> \o IdText(j) \o <<NL>> ELSE <<"s">>
ServerFailed(j) == IF j % 2 = 1 THEN <<"f">> ELSE <<"f", CR, NL>> \o IdText(j) \o <<CR, NL>>
ServerUnprocessed(j) == IF j % 3 = 0 THEN <<"u", NL>> \o IdText(j) ELSE <<>>

\* _get_job_results(job_id) once its three fetches have answered
JobResult(j) == CombineResults(ServerSuccess(j), ServerFailed(j), ServerUnprocessed(j))

VARIABLES
  header,      \* the row next(data) hands split_csv first
  data,        \* the data rows behind the header in the row iterator
  max_bytes,   \* int(split_size * 1024 * 1024)
  gen,         \* the split_csv generator: suspension point and its locals
  chunks,      \* the values the generator has yielded so far
  result_success,      \* decoded body of .../successfulResults/
  result_failed,       \* decoded body of .../failedResults/
  result_unprocessed,  \* decoded body of .../unprocessedrecords/
  combined_result,     \* what _get_job_results returns
  mstage,              \* where one _get_job_results call stands
  pc,                  \* where the bulk operation stands
  operation,           \* operation argument of _bulk_operation
  external_id_field,   \* external_id_field argument of _bulk_operation
  job_ids,             \* the live job list
  results,             \* merged bodies collected so far
  i,                   \* enumerate's counter in the polling for loop
  it,                  \* index of the list iterator of the polling for loop
  job_state,           \* the state the last status query answered
  calls,               \* every session.request and sleep so far, in order
  waits,               \* status queries answered with a state that is not terminal
  error,               \* the exception the operation ended with
  exc_args,            \* the arguments that exception was built with
  returned             \* the value the operation returned

splitVars == <<header, data, max_bytes, gen, chunks>>
mergeVars == <<result_success, result_failed, result_unprocessed, combined_result, mstage>>
opVars == <<pc, operation, external_id_field, job_ids, results, i, it, job_state,
            calls, waits, error, exc_args, returned>>
vars == <<splitVars, mergeVars, opVars>>

SplitIdle ==
  /\ header = CsvHeader
  /\ data = <<>>
  /\ max_bytes = 1
  /\ gen = NewGen
  /\ chunks = <<>>

MergeIdle ==
  /\ result_success = <<>>
  /\ result_failed = <<>>
  /\ result_unprocessed = <<>>
  /\ combined_result = <<>>
  /\ mstage = "called"

OpIdle ==
  /\ pc = "idle"
  /\ operation = "none"
  /\ external_id_field = "None"
  /\ job_ids = <<>>
  /\ results = <<>>
  /\ i = 0
  /\ it = 0
  /\ job_state = "none"
  /\ calls = <<>>
  /\ waits = 0
  /\ error = "none"
  /\ exc_args = NoExc
  /\ returned = <<>>

\* ---------------------------------------------------------------- split_csv alone
InitSplit ==
  /\ header \in HeaderSet
  /\ data \in SeqsUpTo(RowSet, MaxRows)
  /\ max_bytes \in 1..MaxBytesBound
  /\ gen = NewGen
  /\ chunks = <<>>
  /\ MergeIdle
  /\ OpIdle

\* the consumer's next() on the generator
Step(g2) ==
  /\ gen' = g2
  /\ chunks' = IF Yields(g2) THEN Append(chunks, g2.output) ELSE chunks
  /\ UNCHANGED <<header, data, max_bytes>>

GenStart ==
  /\ pc = "idle"
  /\ gen.at = "created"
  /\ Step(GenNext(gen, header, data, max_bytes))
  /\ UNCHANGED <<mergeVars, opVars>>

GenResume ==
  /\ pc = "idle"
  /\ gen.at = "yield_inner"
  /\ Step(GenNext(gen, header, data, max_bytes))
  /\ UNCHANGED <<mergeVars, opVars>>

GenFinish ==
  /\ pc = "idle"
  /\ gen.at = "yield_last"
  /\ Step(GenNext(gen, header, data, max_bytes))
  /\ UNCHANGED <<mergeVars, opVars>>

NextSplit == GenStart \/ GenResume \/ GenFinish

SpecSplit == InitSplit /\ [][NextSplit]_vars

\* ---------------------------------------------------------------- _get_job_results alone
InitMerge == SplitIdle /\ MergeIdle /\ OpIdle

FetchSuccessful ==
  /\ mstage = "called"
  /\ \E status \in StatusSet, body \in Bodies(<<"s">>) :
       IF Raises(status)
       THEN mstage' = ExcClass(status) /\ UNCHANGED result_success
       ELSE mstage' = "got_success" /\ result_success' = body
  /\ UNCHANGED <<result_failed, result_unprocessed, combined_result, splitVars, opVars>>

FetchFailed ==
  /\ mstage = "got_success"
  /\ \E status \in StatusSet, body \in Bodies(<<"f">>) :
       IF Raises(status)
       THEN mstage' = ExcClass(status) /\ UNCHANGED result_failed
       ELSE mstage' = "got_failed" /\ result_failed' = body
  /\ UNCHANGED <<result_success, result_unprocessed, combined_result, splitVars, opVars>>

FetchUnprocessed ==
  /\ mstage = "got_failed"
  /\ \E status \in StatusSet, body \in Bodies(<<"u">>) :
       IF Raises(status)
       THEN mstage' = ExcClass(status) /\ UNCHANGED result_unprocessed
       ELSE mstage' = "got_unprocessed" /\ result_unprocessed' = body
  /\ UNCHANGED <<result_success, result_failed, combined_result, splitVars, opVars>>

Combine ==
  /\ mstage = "got_unprocessed"
  /\ LET r == CombineResults(result_success, result_failed, result_unprocessed)
     IN /\ mstage' = IF r.raised = "none" THEN "returned" ELSE r.raised
        /\ combined_result' = r.value
  /\ UNCHANGED <<result_success, result_failed, result_unprocessed, splitVars, opVars>>

NextMerge == FetchSuccessful \/ FetchFailed \/ FetchUnprocessed \/ Combine

SpecMerge == InitMerge /\ [][NextMerge]_vars

\* ---------------------------------------------------------------- the bulk operations
Init ==
  /\ header = CsvHeader
  /\ data \in SeqsUpTo(OpRowSet, MaxOpRows)
  /\ max_bytes \in OpMaxBytes
  /\ gen = NewGen
  /\ chunks = <<>>
  /\ MergeIdle
  /\ OpIdle

\* _bulk_operation entered from one of the wrappers; data is a row iterator
Enter(op, ext) ==
  /\ pc = "idle"
  /\ pc' = "submit"
  /\ operation' = op
  /\ external_id_field' = ext
  /\ UNCHANGED <<job_ids, results, i, it, job_state, calls, waits, error, exc_args,
                 returned, splitVars, mergeVars>>

delete == Enter("delete", "None")

insert == Enter("insert", "None")

update == Enter("update", "None")

\* upsert(data, external_id_field): the argument is positional and required,
\* a call that leaves it out never enters the body
upsert ==
  \/ \E ext \in {"None", "Ext__c"} : Enter("upsert", ext)
  \/ /\ pc = "idle"
     /\ pc' = "raised"
     /\ error' = "TypeError"
     /\ UNCHANGED <<operation, external_id_field, job_ids, results, i, it, job_state,
                    calls, waits, exc_args, returned, splitVars, mergeVars>>

\* id the service gives the next job it creates
NextJobId == 1 + Cardinality({ c \in 1..Len(calls) : calls[c].op = "create" })

\* One turn of "for batch in split_csv(data, 100)": the generator's next(),
\* then _create_job, _add_batch, _close_job and job_ids.append.  When the
\* generator is exhausted the loop ends and "while job_ids" is tested.
SubmitChunk ==
  /\ pc = "submit"
  /\ LET g2 == GenNext(gen, header, data, max_bytes)
     IN /\ Step(g2)
        /\ IF g2.at = "UnboundLocalError" THEN
             /\ pc' = "raised"
             /\ error' = "UnboundLocalError"
             /\ UNCHANGED <<job_ids, i, it, calls, exc_args, returned>>
           ELSE IF g2.at = "returned" THEN
             /\ pc' = IF LoopOver(job_ids) THEN "returned" ELSE "poll"
             /\ returned' = <<>>
             /\ i' = 0
             /\ it' = 0
             /\ UNCHANGED <<job_ids, calls, error, exc_args>>
           ELSE \E sts \in AnswerPlans(3) :
             LET id == NextJobId
                 log == Issue(SubmitRequests(id, CreatePayload(operation, external_id_field),
                                             g2.output), sts)
             IN /\ calls' = calls \o log
                /\ IF Raises(Last(log).status)
                   THEN /\ pc' = "raised"
                        /\ error' = ExcClass(Last(log).status)
                        /\ exc_args' = ExcArgs(Last(log))
                        /\ UNCHANGED job_ids
                   ELSE /\ pc' = "submit"
                        /\ job_ids' = Append(job_ids, id)
                        /\ UNCHANGED <<error, exc_args>>
                /\ UNCHANGED <<i, it, returned>>
  /\ UNCHANGED <<operation, external_id_field, results, job_state, waits, mergeVars>>

\* the iterator stepping over the job behind every job it looks at
AdvanceSkipping(live) ==
  /\ i' = i + 1
  /\ it' = it + 2
  /\ pc' = IF it + 2 >= Len(live) THEN "sleep" ELSE "poll"

\* the for loop moves on: both counters step, and the pass is over when the
\* list iterator's index has reached the end of the list as it is now
Advance(live) ==
  /\ i' = i + 1
  /\ it' = it + 1
  /\ pc' = IF it + 1 >= Len(live) THEN "sleep" ELSE "poll"

\* One turn of "for i, job in enumerate(job_ids)": the status query and, for
\* a terminal state, pop(i), the three result fetches, the merge and the append.
PollJob ==
  /\ pc = "poll"
  /\ \E sts \in AnswerPlans(4), state \in JobStates :
       LET job == job_ids[it + 1]
           log == Issue(PollRequests(job, ~StillRunning(state)), sts)
       IN /\ StillRunning(state) => waits < MaxWaits
          /\ calls' = calls \o log
          /\ job_state' = IF Raises(log[1].status) THEN job_state ELSE state
          /\ IF Raises(Last(log).status) THEN
               /\ pc' = "raised"
               /\ error' = ExcClass(Last(log).status)
               /\ exc_args' = ExcArgs(Last(log))
               /\ job_ids' = IF Len(log) > 1 THEN Pop(job_ids, i) ELSE job_ids
               /\ UNCHANGED <<results, i, it, waits>>
             ELSE IF StillRunning(state) THEN
               /\ Advance(job_ids)
               /\ waits' = waits + 1
               /\ UNCHANGED <<job_ids, results, error, exc_args>>
             ELSE IF JobResult(job).raised # "none" THEN
               /\ pc' = "raised"
               /\ error' = JobResult(job).raised
               /\ job_ids' = Pop(job_ids, i)
               /\ UNCHANGED <<results, i, it, waits, exc_args>>
             ELSE
               /\ job_ids' = Pop(job_ids, i)
               /\ results' = Append(results, JobResult(job).value)
               /\ Advance(Pop(job_ids, i))
               /\ UNCHANGED <<waits, error, exc_args>>
  /\ UNCHANGED <<operation, external_id_field, returned, splitVars, mergeVars>>

\* sleep(wait) after the pass, then "while job_ids" and the return
Sleep ==
  /\ pc = "sleep"
  /\ calls' = Append(calls, Request("sleep", 0, <<>>))
  /\ IF LoopOver(job_ids)
     THEN /\ pc' = "returned"
          /\ returned' = JoinResults(results)
          /\ UNCHANGED <<i, it>>
     ELSE /\ pc' = "poll"
          /\ i' = 0
          /\ it' = 0
          /\ UNCHANGED returned
  /\ UNCHANGED <<operation, external_id_field, job_ids, results, job_state, waits, error,
                 exc_args, splitVars, mergeVars>>

Next == delete \/ insert \/ update \/ upsert \/ SubmitChunk \/ PollJob \/ Sleep

Spec == Init /\ [][Next]_vars

\* one thread of control that runs on until it returns or raises
FairSpec == Spec /\ WF_vars(Next)

\* ---------------------------------------------------------------- call_salesforce alone
InitCall == SplitIdle /\ MergeIdle /\ OpIdle

\* the final statuses and the endpoints one request is tried with
CallStatuses == 200..599
Endpoints == {"create", "upload", "close", "status", "successfulResults",
              "failedResults", "unprocessedrecords"}

\* one call_salesforce: the request, its answer, and exception_handler when
\* the status is 300 or more
CallSalesforce ==
  /\ pc = "idle"
  /\ \E op \in Endpoints, job \in 1..2, status \in CallStatuses, reply \in ErrorReplies :
       LET c == Answer(Request(op, job, <<>>), status, reply)
       IN /\ calls' = <<c>>
          /\ IF Raises(status)
             THEN /\ pc' = "raised"
                  /\ error' = ExcClass(status)
                  /\ exc_args' = ExcArgs(c)
             ELSE /\ pc' = "answered"
                  /\ UNCHANGED <<error, exc_args>>
  /\ UNCHANGED <<operation, external_id_field, job_ids, results, i, it, job_state, waits,
                 returned, splitVars, mergeVars>>

NextCall == CallSalesforce

SpecCall == InitCall /\ [][NextCall]_vars

\* ================================================================ properties
RECURSIVE SplitAtFrom(_, _, _, _)
SplitAtFrom(t, k, lines, cur) ==
  IF k > Len(t) THEN Append(lines, cur)
  ELSE IF t[k] = NL THEN SplitAtFrom(t, k + 1, Append(lines, cur), <<>>)
  ELSE SplitAtFrom(t, k + 1, lines, Append(cur, t[k]))

\* the lines of a "\n" joined text
LinesOf(t) == SplitAtFrom(t, 1, <<>>, <<>>)

\* the fields of one line of CSV
FieldsOf(line) == ParseCSV(line \o <<NL>>)[1]

\* the data rows of a chunk: its parsed rows behind the header
DataRows(chunk) == Tail(ParseCSV(chunk))

RECURSIVE AllDataRows(_)
AllDataRows(cs) == IF cs = <<>> THEN <<>> ELSE DataRows(Head(cs)) \o AllDataRows(Tail(cs))

RECURSIVE TotalCost(_)
TotalCost(rows) == IF rows = <<>> THEN 0 ELSE RowCost(Head(rows)) + TotalCost(Tail(rows))

\* number of data rows behind the header of a body
RowCount(body) == IF SplitLines(body) = <<>> THEN 0 ELSE Len(SplitLines(body)) - 1

\* C1: once split_csv has run to its end, the data rows of the chunks it
\* yielded, concatenated in yield order, are exactly the input rows: nothing
\* lost, duplicated or reordered.
C1_RowsReproduced ==
  gen.at = "returned" => AllDataRows(chunks) = data

\* C2: fed a header and no data rows, split_csv raises nothing and yields
\* exactly one chunk, the header line alone.
C2_ZeroRowsOneChunk ==
  (data = <<>> /\ gen.at # "created")
    => /\ gen.at \in {"yield_last", "returned"}
       /\ chunks = <<WriteRow(header)>>

\* C4: by the chunker's own row cost, no yielded chunk costs more than
\* max_bytes unless it is a single row that alone costs more than max_bytes.
C4_ChunkWithinLimit ==
  \A c \in 1..Len(chunks) :
    \/ TotalCost(DataRows(chunks[c])) <= max_bytes
    \/ /\ Len(DataRows(chunks[c])) = 1
       /\ RowCost(DataRows(chunks[c])[1]) > max_bytes

\* C5: when each of the three bodies has a header line and S, F, U data rows,
\* the merged body has exactly 1 + S + F + U lines: the success header, the
\* S success rows, the F failed rows, then the U unprocessed rows, each
\* partition in its own order.
C5_MergedLines ==
  (/\ mstage = "returned"
   /\ SplitLines(result_success) # <<>>
   /\ SplitLines(result_failed) # <<>>
   /\ SplitLines(result_unprocessed) # <<>>)
  => LET ls == SplitLines(result_success)
         lf == SplitLines(result_failed)
         lu == SplitLines(result_unprocessed)
         S == Len(ls) - 1
         F == Len(lf) - 1
         U == Len(lu) - 1
         out == LinesOf(combined_result)
     IN /\ Len(out) = 1 + S + F + U
        /\ out[1] = ls[1]
        /\ \A k \in 1..S : out[1 + k] = ls[1 + k]
        /\ \A k \in 1..F : out[1 + S + k] = lf[1 + k]
        /\ \A k \in 1..U :
             /\ Len(out[1 + S + F + k]) >= Len(lu[1 + k])
             /\ SubSeq(out[1 + S + F + k],
                       Len(out[1 + S + F + k]) - Len(lu[1 + k]) + 1,
                       Len(out[1 + S + F + k])) = lu[1 + k]

C5_Witness ==
  /\ mstage = "returned"
  /\ RowCount(result_success) = 2
  /\ RowCount(result_failed) = 1
  /\ RowCount(result_unprocessed) = 2
  /\ SplitLines(result_unprocessed)[2] # SplitLines(result_unprocessed)[3]
  /\ Contains(result_success, CR)

\* C6 as stated: in the merged body every unprocessed row is its original
\* fields followed by two empty trailing fields.
C6_TrailingPadding ==
  mstage = "returned"
  => LET lu == SplitLines(result_unprocessed)
         out == LinesOf(combined_result)
         base == 1 + RowCount(result_success) + RowCount(result_failed)
     IN \A k \in 1..RowCount(result_unprocessed) :
          FieldsOf(out[base + k]) = FieldsOf(lu[1 + k]) \o << <<>>, <<>> >>

\* C6 amended: in the merged body every unprocessed row is two empty leading
\* fields followed by its original fields, unchanged and in order, so it has
\* its original column count plus two.
C6_LeadingPadding ==
  mstage = "returned"
  => LET lu == SplitLines(result_unprocessed)
         out == LinesOf(combined_result)
         base == 1 + RowCount(result_success) + RowCount(result_failed)
     IN \A k \in 1..RowCount(result_unprocessed) :
          /\ FieldsOf(out[base + k]) = << <<>>, <<>> >> \o FieldsOf(lu[1 + k])
          /\ Len(FieldsOf(out[base + k])) = Len(FieldsOf(lu[1 + k])) + 2

C6_Witness ==
  /\ mstage = "returned"
  /\ RowCount(result_unprocessed) = 2
  /\ Len(FieldsOf(SplitLines(result_unprocessed)[2])) = 2
  /\ Len(FieldsOf(SplitLines(result_unprocessed)[3])) = 1
  /\ RowCount(result_failed) = 0

\* C7: whichever partitions are fetched as a header line only or as an empty
\* body, _get_job_results raises nothing and returns a merged body to which
\* those partitions add no row.
C7_EmptyPartitions ==
  mstage \in {"returned", "IndexError"}
  => /\ mstage = "returned"
     /\ Len(LinesOf(combined_result))
          = 1 + RowCount(result_success) + RowCount(result_failed)
              + RowCount(result_unprocessed)

\* ---- the bulk operation, read off its calls
Range(q) == { q[n] : n \in 1..Len(q) }
IsHttp(c) == c.op # "sleep"
Answered2xx(c) == c.status \in 200..299
CallsOf(op) == SelectSeq(calls, LAMBDA c : c.op = op /\ Answered2xx(c))
JobsOf(op) == [n \in 1..Len(CallsOf(op)) |-> CallsOf(op)[n].job]
UploadedChunks == [n \in 1..Len(CallsOf("upload")) |-> CallsOf("upload")[n].body]
CeilDiv(a, b) == (a + b - 1) \div b
Submitted == Range(JobsOf("close"))
Fetched == JobsOf("unprocessedrecords")
PollPhase == pc \in {"poll", "sleep", "returned"}

\* C3: N rows of equal cost under a limit that lets R of them into a chunk
\* make exactly ceil(N/R) jobs, each created, given one chunk and closed, and
\* the uploaded chunks carry every input row exactly once.
C3_JobsPerChunk ==
  PollPhase
  => LET cost == RowCost(CHOOSE r \in OpRowSet : TRUE)
         R == CeilDiv(max_bytes, cost)
         jobs == CeilDiv(Len(data), R)
     IN /\ Len(CallsOf("create")) = jobs
        /\ JobsOf("upload") = JobsOf("create")
        /\ JobsOf("close") = JobsOf("create")
        /\ AllDataRows(UploadedChunks) = data

\* C8: all through the polling phase the live list and the jobs whose results
\* were fetched are disjoint and make up the submitted jobs, no job is in
\* either twice, results holds the merged body of each fetched job in fetch
\* order, the job a pass removes from the live list is the one whose terminal
\* state the pass has just read, and the operation returns with one merged
\* body for every submitted job.
C8_LiveAndFetched ==
  /\ [](PollPhase =>
          /\ Range(job_ids) \cap Range(Fetched) = {}
          /\ Range(job_ids) \cup Range(Fetched) = Submitted
          /\ Cardinality(Range(job_ids)) = Len(job_ids)
          /\ Cardinality(Range(Fetched)) = Len(Fetched)
          /\ results = [n \in 1..Len(Fetched) |-> JobResult(Fetched[n]).value]
          /\ pc = "returned" =>
               /\ job_ids = <<>>
               /\ Len(results) = Cardinality(Submitted)
               /\ returned = JoinWith(<<NL>>, results))
  /\ [][(pc = "poll" /\ job_ids' # job_ids) =>
          /\ calls'[Len(calls) + 1].op = "status"
          /\ Answered2xx(calls'[Len(calls) + 1])
          /\ job_state' \in TerminalStates
          /\ job_ids' = SelectSeq(job_ids, LAMBDA j : j # calls'[Len(calls) + 1].job)]_vars

C8_Witness ==
  /\ pc = "returned"
  /\ waits = 0
  /\ Fetched = <<1, 3, 2>>
  /\ Len(results) = 3

\* C9: a request answered outside 2xx is the last request the operation ever
\* sends, and the operation has ended with the error class of that status; a
\* create-job answered 400 ends it with SalesforceMalformedRequest and no
\* upload for that job.
C9_AbortOnErrorStatus ==
  \A c \in 1..Len(calls) :
    (IsHttp(calls[c]) /\ ~Answered2xx(calls[c]))
    => /\ c = Len(calls)
       /\ pc = "raised"
       /\ error = ExcClass(calls[c].status)
       /\ (calls[c].op = "create" /\ calls[c].status = 400)
            => /\ error = "SalesforceMalformedRequest"
               /\ \A d \in 1..Len(calls) :
                    calls[d].op = "upload" => calls[d].job # calls[c].job

C9_Witness ==
  /\ pc = "raised"
  /\ Len(calls) = 4
  /\ Last(calls).op = "create"
  /\ Last(calls).status = 400
  /\ error = "SalesforceMalformedRequest"

\* C10: an upsert whose external_id_field is None sends no create-job request
\* and never gets as far as polling.
C10_UpsertNeedsExternalId ==
  (operation = "upsert" /\ external_id_field = "None")
  => /\ \A c \in 1..Len(calls) : calls[c].op # "create"
     /\ ~PollPhase

\* C15: every chunk split_csv yields begins with the header row, written as
\* its first line, and that row is the header row the input began with.
C15_HeaderInEveryChunk ==
  \A c \in 1..Len(chunks) :
    /\ ParseCSV(chunks[c]) # <<>>
    /\ ParseCSV(chunks[c])[1] = header
    /\ Len(chunks[c]) >= Len(WriteRow(header))
    /\ SubSeq(chunks[c], 1, Len(WriteRow(header))) = WriteRow(header)

C15_Witness ==
  /\ Len(chunks) = 3
  /\ chunks[1] # chunks[2]
  /\ chunks[2] # chunks[3]
  /\ header # CsvHeader

\* C14: call_salesforce raises exactly for a status of 300 or more, the class
\* raised depends on the status alone (300, 400, 401, 403, 404 have their own
\* class, every other status the general one), and the exception carries the
\* request URL, the status code and the response body, parsed when it parses.
C14_ErrorClassByStatus ==
  calls # <<>>
  => LET c == calls[1]
     IN /\ (pc = "raised") = (c.status >= 300)
        /\ pc = "raised" =>
             /\ c.status = 300 => error = "SalesforceMoreThanOneRecord"
             /\ c.status = 400 => error = "SalesforceMalformedRequest"
             /\ c.status = 401 => error = "SalesforceExpiredSession"
             /\ c.status = 403 => error = "SalesforceRefusedRequest"
             /\ c.status = 404 => error = "SalesforceResourceNotFound"
             /\ c.status \notin {300, 400, 401, 403, 404} => error = "SalesforceGeneralError"
             /\ exc_args.url = <<c.op, c.job>>
             /\ exc_args.status = c.status
             /\ exc_args.content = IF c.reply.parses THEN c.reply.json ELSE c.reply.text

C14_Witness ==
  /\ pc = "raised"
  /\ calls[1].status = 403
  /\ ~calls[1].reply.parses
  /\ exc_args.content = "Bad Gateway"
  /\ error = "SalesforceRefusedRequest"

HttpFailed == \E c \in 1..Len(calls) : IsHttp(calls[c]) /\ ~Answered2xx(calls[c])

NewCalls == SubSeq(calls', Len(calls) + 1, Len(calls'))
AllAnswered2xx(q) == \A n \in 1..Len(q) : Answered2xx(q[n])
FetchOps == <<"successfulResults", "failedResults", "unprocessedrecords">>

\* C12: a status query answered Failed or Aborted is followed by just what
\* follows one answered JobComplete: the job leaves the live list, its three
\* result bodies are fetched and their merge is appended to results, and no
\* exception is raised unless one of those requests is answered outside 2xx.
C12_FailedLikeComplete ==
  [][(/\ pc = "poll"
      /\ Len(calls') > Len(calls)
      /\ Answered2xx(NewCalls[1])
      /\ job_state' \in {"JobComplete", "Failed", "Aborted"})
     => LET job == NewCalls[1].job
        IN /\ NewCalls[1].op = "status"
           /\ job_ids' = SelectSeq(job_ids, LAMBDA j : j # job)
           /\ Len(NewCalls) >= 2
           /\ \A n \in 2..Len(NewCalls) :
                NewCalls[n].op = FetchOps[n - 1] /\ NewCalls[n].job = job
           /\ IF AllAnswered2xx(NewCalls)
              THEN /\ Len(NewCalls) = 4
                   /\ results' = Append(results, JobResult(job).value)
                   /\ error' = "none"
                   /\ pc' \in {"poll", "sleep"}
              ELSE /\ pc' = "raised"
                   /\ ~Answered2xx(NewCalls[Len(NewCalls)])
                   /\ results' = results]_vars

C12_Witness ==
  /\ pc = "returned"
  /\ job_state = "Failed"
  /\ Len(results) = 3
  /\ error = "none"

\* positions in the log of the last fetch of each job fetched in full
FetchPositions ==
  { c \in 1..Len(calls) : calls[c].op = "unprocessedrecords" /\ Answered2xx(calls[c]) }
SleepsBefore(c) == Cardinality({ d \in 1..c : calls[d].op = "sleep" })

RECURSIVE LinesOfAll(_)
LinesOfAll(bodies) ==
  IF bodies = <<>> THEN <<>> ELSE LinesOf(Head(bodies)) \o LinesOfAll(Tail(bodies))

\* C13: the returned text is the merged bodies in the order their jobs were
\* read as terminal, pass after pass and within a pass in live-list order,
\* each body whole with its own header line and one line break between two
\* bodies.
C13_CompletionOrder ==
  /\ [](pc = "returned" =>
          /\ results = [n \in 1..Len(Fetched) |-> JobResult(Fetched[n]).value]
          /\ LinesOf(returned) = LinesOfAll(results)
          /\ \A n \in 1..Len(results) : LinesOf(results[n])[1] = <<"s">>
          /\ Len(SelectSeq(LinesOf(returned), LAMBDA l : l = <<"s">>)) = Len(results)
          /\ \A c, d \in FetchPositions :
               (c < d /\ SleepsBefore(c) = SleepsBefore(d))
                 => \E m, n \in 1..Len(job_ids) + Len(Fetched) :
                      m < n /\ calls[c].job = JobsOf("close")[m] /\ calls[d].job = JobsOf("close")[n])
  /\ [][(/\ pc = "poll"
         /\ Len(calls') > Len(calls)
         /\ AllAnswered2xx(NewCalls)
         /\ job_state' \in {"JobComplete", "Failed", "Aborted"})
        => /\ Len(results') = Len(results) + 1
           /\ results'[Len(results')] = JobResult(NewCalls[1].job).value
           /\ SubSeq(results', 1, Len(results)) = results]_vars

C13_Witness ==
  /\ pc = "returned"
  /\ Fetched = <<1, 3, 2, 4>>
  /\ SleepsBefore(Len(calls)) = 3

\* the poll round under way: the calls since the last sleep that are not
\* submissions, the jobs they query and fetch, and the live list the round
\* started with (what is live now and what the round has removed, in the
\* order of submission, which is the order of the list)
SleepPositions == { c \in 1..Len(calls) : calls[c].op = "sleep" }
LastSleep == IF SleepPositions = {} THEN 0
             ELSE CHOOSE c \in SleepPositions : \A d \in SleepPositions : d <= c
RoundCalls == SubSeq(calls, LastSleep + 1, Len(calls))
RoundJobs(op) ==
  LET q == SelectSeq(RoundCalls, LAMBDA c : c.op = op)
  IN [n \in 1..Len(q) |-> q[n].job]
RoundQueried == RoundJobs("status")
RoundRemoved == RoundJobs("successfulResults")
RoundStart ==
  SelectSeq(JobsOf("close"), LAMBDA j : j \in Range(job_ids) \cup Range(RoundRemoved))

\* C16: when a pass is over, the jobs whose status it queried are the jobs of
\* the live list the pass started with, each once and in list order.
C16_EveryLiveJobQueried == pc = "sleep" => RoundQueried = RoundStart

SubmitOps == <<"create", "upload", "close">>
IsSubmit(c) == c.op \in Range(SubmitOps)
SubmitCalls == SelectSeq(calls, IsSubmit)

\* C17: the submission calls come in threes, create, upload, close, the n-th
\* three for the n-th chunk and all under the id its create call answered, a
\* new id each time; a call is issued only when the one before it was
\* answered 2xx, so a job is closed before the next is created; and all of
\* them come before the first status query or result fetch, by which time
\* every chunk's job has been closed.
C17_SubmitOrder ==
  /\ \A n \in 1..Len(SubmitCalls) :
       /\ SubmitCalls[n].op = SubmitOps[((n - 1) % 3) + 1]
       /\ SubmitCalls[n].job = ((n - 1) \div 3) + 1
       /\ n < Len(SubmitCalls) => Answered2xx(SubmitCalls[n])
       /\ SubmitCalls[n].op = "upload" => SubmitCalls[n].body = chunks[SubmitCalls[n].job]
       /\ calls[n] = SubmitCalls[n]
  /\ \A c \in 1..Len(calls) :
       ~IsSubmit(calls[c]) =>
          /\ Len(SubmitCalls) = 3 * Len(chunks)
          /\ AllAnswered2xx(SubmitCalls)
          /\ gen.at = "returned"
          /\ JobsOf("close") = [n \in 1..Len(chunks) |-> n]

C17_Witness ==
  /\ pc = "sleep"
  /\ Len(chunks) = 4
  /\ Len(SubmitCalls) = 12
  /\ Fetched = <<1, 3>>

IsFetch(c) == c.op \in Range(FetchOps)
FetchIndex(c) == CHOOSE k \in 1..3 : FetchOps[k] = c.op

\* C18: result fetches enter the log only in the step of a status query that
\* was answered 2xx with a terminal state, for the job of that query; and in
\* the log the first fetch of a job stands right behind the status query of
\* that job and each later fetch right behind the fetch before it, with no
\* other query and no sleep in between.
C18_FetchAfterTerminalStatus ==
  /\ [](\A c \in 1..Len(calls) :
          IsFetch(calls[c]) =>
            /\ c > 1
            /\ calls[c - 1].job = calls[c].job
            /\ Answered2xx(calls[c - 1])
            /\ calls[c - 1].op = IF FetchIndex(calls[c]) = 1 THEN "status"
                                 ELSE FetchOps[FetchIndex(calls[c]) - 1])
  /\ [][(\E n \in 1..Len(NewCalls) : IsFetch(NewCalls[n]))
        => /\ pc = "poll"
           /\ NewCalls[1].op = "status"
           /\ NewCalls[1].job = job_ids[it + 1]
           /\ Answered2xx(NewCalls[1])
           /\ job_state' \in {"JobComplete", "Failed", "Aborted"}
           /\ \A n \in 2..Len(NewCalls) : IsFetch(NewCalls[n])]_vars

C18_Witness ==
  /\ pc = "returned"
  /\ job_state = "Aborted"
  /\ Len(Fetched) = 2
  /\ waits = 1
  /\ calls[Len(calls) - 5].op = "sleep"

\* C19: every sleep follows a pass that left the live list non-empty and is
\* followed by the next pass; an operation that has returned did not sleep
\* after its last pass.
C19_SleepOnlyBetweenRounds ==
  \A c \in SleepPositions :
    /\ c > 1
    /\ calls[c - 1].op # "sleep"
    /\ IF c < Len(calls) THEN calls[c + 1].op = "status"
       ELSE pc = "poll" /\ job_ids # <<>>

\* the passes that were over before job j was first queried: the sleeps
\* ahead of its first status query, or, while it has not been queried, every
\* pass that is over by now
StatusPositions(j) == { c \in 1..Len(calls) : calls[c].op = "status" /\ calls[c].job = j }
FirstQuery(j) == CHOOSE c \in StatusPositions(j) : \A d \in StatusPositions(j) : c <= d
OmittedRounds(j) ==
  IF StatusPositions(j) # {} THEN SleepsBefore(FirstQuery(j))
  ELSE Cardinality(SleepPositions) + (IF pc = "sleep" THEN 1 ELSE 0)

\* C20: when a pass is over, a job of the list the pass started with was left
\* unqueried only if the job right ahead of it in that list was removed in
\* this pass, so the head of the list was queried; and the job submitted
\* behind p others has been passed over in at most p passes before its first
\* status query.
C20_OmittedOnlyBehindRemoved ==
  /\ pc = "sleep" =>
       /\ RoundStart # <<>>
       /\ RoundStart[1] = RoundQueried[1]
       /\ \A k \in 1..Len(RoundStart) :
            RoundStart[k] \notin Range(RoundQueried)
              => k > 1 /\ RoundStart[k - 1] \in Range(RoundRemoved)
       /\ \A m, n \in 1..Len(RoundQueried) : m < n => RoundQueried[m] < RoundQueried[n]
  /\ PollPhase => \A j \in Submitted : OmittedRounds(j) <= j - 1

C20_Witness ==
  /\ pc = "sleep"
  /\ LastSleep > 0
  /\ RoundStart = <<2, 3, 4>>
  /\ RoundQueried = <<2, 4>>
  /\ OmittedRounds(2) = 1

====
